---- MODULE Spec2Model ----
(***************************************************************************)
(* The flight-delay insurance ledger of contracts/FlightInsurance.sol      *)
(* (variant 1) and of unnamed/part_002 (variant 2), as one state machine.  *)
(* Each external call of the contract is one action.  Every call has a     *)
(* status (OK, or the reason of its revert) and a result (the ledger it     *)
(* leaves), both computed from the state it is made in; a call that        *)
(* reverts leaves the ledger it found.                                     *)
(*                                                                         *)
(* Units: block.timestamp and the two durations are in seconds, as in the  *)
(* source.  Amounts of ether are counted in units of 0.05 ether (the       *)
(* smallest amount the tests send), so 0.1 ether is 2 and 1 ether is 20.   *)
(***************************************************************************)
EXTENDS Integers, Sequences, FiniteSets, TLC

VARIABLES
    variant,              \* 1: contracts/FlightInsurance.sol, 2: unnamed/part_002
    insurer,              \* address insurer (variant 1) / owner (variant 2)
    oracle,               \* address oracle
    subscriptions,        \* mapping(address => Subscription)
    flightDelays,         \* mapping(string => bool)
    allSubscribers,       \* address[] allSubscribers
    allUsersWithFlights,  \* address[] allUsersWithFlights (variant 2 only)
    balance,              \* address(this).balance, the pool
    received,             \* ether each account was sent by transfer(PAYOUT)
    now,                  \* block.timestamp
    lapsed,               \* history: <<user, flightID>> whose unpaid, due policy a
                          \* successful delayed report met while user was not subscribed
    subscribedAt,         \* history: the time of each account's last successful
                          \* subscribe, -1 before the first
    registrations,        \* history: the <<flightID, flightTimestamp>> of each
                          \* account's successful registerFlight calls, in order
    expiredSeen,          \* history: the accounts a successful delayed report has
                          \* scanned after their last subscription ran out
    reportedEarly,        \* history: the <<user, flightID>> whose unpaid policy a
                          \* successful delayed report met before its threshold
    poolShort,            \* history: the flight ids whose last delayed report by
                          \* the oracle failed for an insufficient pool
    reported,             \* history: the flight ids of the successful reports
    deposited,            \* history: the sum of the successful deposits
    subscribeCount        \* history: the number of successful subscribe calls

\* The contract's storage and balance, and what it has sent, as one record.
Ledger ==
    [insurer |-> insurer, oracle |-> oracle, subscriptions |-> subscriptions,
     flightDelays |-> flightDelays, allSubscribers |-> allSubscribers,
     allUsersWithFlights |-> allUsersWithFlights, balance |-> balance,
     received |-> received]

\* A call ends by committing a ledger: the one it computed, or, when it
\* reverts, the one it found.
Commit(l) ==
    /\ insurer' = l.insurer
    /\ oracle' = l.oracle
    /\ subscriptions' = l.subscriptions
    /\ flightDelays' = l.flightDelays
    /\ allSubscribers' = l.allSubscribers
    /\ allUsersWithFlights' = l.allUsersWithFlights
    /\ balance' = l.balance
    /\ received' = l.received
    /\ UNCHANGED <<variant, now>>
vars == <<variant, insurer, oracle, subscriptions, flightDelays, allSubscribers,
          allUsersWithFlights, balance, received, now, lapsed, subscribedAt,
          registrations, expiredSeen, reportedEarly, poolShort, reported,
          deposited, subscribeCount>>

-----------------------------------------------------------------------------
(* Program constants *)

PREMIUM == 2
PAYOUT == 20
DELAY_THRESHOLD == 7200
SUBSCRIPTION_DURATION == 2592000

\* The largest value of the unsigned word the contract computes in, scaled
\* down from 2^256 - 1 to what the model checker's integers hold.  Checked
\* arithmetic (solidity ^0.8.0) reverts above it.
MAX_UINT == 2^30

-----------------------------------------------------------------------------
(* Bounds and input sets *)

\* Deposits the pool accepts, counted in payouts it could fund.
MaxFunded == 1
\* Policies registered over all accounts.
MaxPolicies == 2

ZERO == "0x0"
Deployer == "acc0"
Accounts == {"acc0", "acc1", "acc2"}
\* the accounts that subscribe and register flights
Subscribers == {"acc1", "acc2"}
\* the addresses the insurer names as oracle
OracleCandidates == {ZERO, "acc1"}
FlightIDs == {"FL1", "FL2"}
\* scheduled departure times passed to registerFlight
FlightTimestamps == {0}
Payments == {PREMIUM - 1, PREMIUM, PREMIUM + 1}
Deposits == {0, PAYOUT}

\* The instants the clock visits: deployment, the delay threshold of a flight
\* scheduled at 0, and the end of a subscription taken at 0.
Times == {0, DELAY_THRESHOLD, SUBSCRIPTION_DURATION}

-----------------------------------------------------------------------------
(* Data *)

Policy(flightID, flightTimestamp) ==
    [flightID |-> flightID, flightTimestamp |-> flightTimestamp, hasPaidOut |-> FALSE]

EmptySubscription == [isActive |-> FALSE, startTime |-> 0, policies |-> <<>>]

OK == "ok"

RECURSIVE SumLen(_, _)
SumLen(subs, S) ==
    IF S = {} THEN 0
    ELSE LET a == CHOOSE x \in S : TRUE
         IN Len(subs[a].policies) + SumLen(subs, S \ {a})

PolicyTotal == SumLen(subscriptions, Accounts)

\* room left under the bounds of the model
RoomForPolicy == PolicyTotal < MaxPolicies
RoomForDeposit(value) ==
    balance + value <= MaxFunded * PAYOUT + Cardinality(Accounts) * PREMIUM

Contains(list, a) == \E i \in 1..Len(list) : list[i] = a

-----------------------------------------------------------------------------
(* require(...) chains: the reason of the first requirement that fails, or OK *)

Require(cond, reason) == IF cond THEN OK ELSE reason

RECURSIVE FirstFailure(_)
FirstFailure(checks) ==
    IF checks = <<>> THEN OK
    ELSE IF Head(checks) # OK THEN Head(checks)
    ELSE FirstFailure(Tail(checks))

\* a + b in checked unsigned arithmetic: -1 stands for the Panic(0x11) revert
CheckedAdd(a, b) == IF a + b > MAX_UINT THEN -1 ELSE a + b

-----------------------------------------------------------------------------
(* Modifiers *)

\* mutant: the modifier lets every caller through
onlyInsurer_Anyone(sender) == OK

onlyInsurer(sender) ==
    Require(sender = insurer,
            IF variant = 1 THEN "Only insurer can call this function"
                           ELSE "Only owner can call this function")

\* mutant: the modifier lets every sender through
onlyOracle_Anyone(sender) == OK

\* mutant: the modifier checks the insurer instead of the oracle
onlyOracle_Insurer(sender) ==
    Require(sender = insurer, "Only oracle can call this function")

onlyOracle(sender) ==
    Require(sender = oracle, "Only oracle can call this function")

\* mutant: the modifier lets the oracle through
notOracle_Off(sender) == OK

notOracle(sender) ==
    Require(sender # oracle, "Oracle cannot perform this action")

-----------------------------------------------------------------------------
(* constructor *)

Init ==
    /\ variant \in {1, 2}
    /\ insurer = Deployer
    /\ oracle = IF variant = 1 THEN Deployer ELSE ZERO
    /\ subscriptions = [a \in Accounts |-> EmptySubscription]
    /\ flightDelays = [f \in FlightIDs |-> FALSE]
    /\ allSubscribers = <<>>
    /\ allUsersWithFlights = <<>>
    /\ balance = 0
    /\ received = [a \in Accounts |-> 0]
    /\ now = 0
    /\ lapsed = {}
    /\ subscribedAt = [a \in Accounts |-> -1]
    /\ registrations = [a \in Accounts |-> <<>>]
    /\ expiredSeen = {}
    /\ reportedEarly = {}
    /\ poolShort = {}
    /\ reported = {}
    /\ deposited = 0
    /\ subscribeCount = 0

-----------------------------------------------------------------------------
(* setOracle *)

\* mutant: any address is accepted as oracle
setOracleStatus_AnyAddress(sender, _oracle) == onlyInsurer(sender)

setOracleStatus(sender, _oracle) ==
    FirstFailure(<<
        onlyInsurer(sender),
        IF variant = 1 THEN Require(_oracle # ZERO, "Invalid oracle address") ELSE OK
    >>)

\* mutant: the address is stored as the insurer
setOracleResult_StoresInsurer(sender, _oracle) ==
    IF setOracleStatus(sender, _oracle) = OK
    THEN [Ledger EXCEPT !.insurer = _oracle]
    ELSE Ledger

setOracleResult(sender, _oracle) ==
    IF setOracleStatus(sender, _oracle) = OK
    THEN [Ledger EXCEPT !.oracle = _oracle]
    ELSE Ledger

setOracle(sender, _oracle) ==
    /\ Commit(setOracleResult(sender, _oracle))
    /\ UNCHANGED <<lapsed, subscribedAt, registrations, expiredSeen, reportedEarly,
                   poolShort, reported, deposited, subscribeCount>>

-----------------------------------------------------------------------------
(* depositFunds *)

\* mutant: anyone may deposit
depositFundsStatus_Open(sender, value) ==
    IF variant = 2 THEN Require(value > 0, "Must deposit some ETH") ELSE OK

depositFundsStatus(sender, value) ==
    FirstFailure(<<
        onlyInsurer(sender),
        IF variant = 2 THEN Require(value > 0, "Must deposit some ETH") ELSE OK
    >>)

depositFundsResult(sender, value) ==
    IF depositFundsStatus(sender, value) = OK
    THEN [Ledger EXCEPT !.balance = @ + value]
    ELSE Ledger

depositFunds(sender, value) ==
    /\ depositFundsStatus(sender, value) = OK => RoomForDeposit(value)
    /\ Commit(depositFundsResult(sender, value))
    /\ UNCHANGED <<lapsed, subscribedAt, registrations, expiredSeen, reportedEarly,
                   poolShort, reported, deposited, subscribeCount>>

\* the same call, with the sum of the successful deposits kept
depositFundsAudited(sender, value) ==
    /\ depositFundsStatus(sender, value) = OK => RoomForDeposit(value)
    /\ Commit(depositFundsResult(sender, value))
    /\ deposited' = IF depositFundsStatus(sender, value) = OK
                    THEN deposited + value
                    ELSE deposited
    /\ UNCHANGED <<lapsed, subscribedAt, registrations, expiredSeen, reportedEarly,
                   poolShort, reported, subscribeCount>>

-----------------------------------------------------------------------------
(* subscribe *)

\* mutant: a payment of at least the premium is accepted
subscribeStatus_AtLeast(sender, value) ==
    FirstFailure(<<
        Require(value >= PREMIUM, "Premium must be 0.1 ETH"),
        Require(~subscriptions[sender].isActive, "Already subscribed")
    >>)

\* mutant: an expired subscription does not count as active
subscribeStatus_Unexpired(sender, value) ==
    FirstFailure(<<
        Require(value = PREMIUM, "Premium must be 0.1 ETH"),
        Require(~(/\ subscriptions[sender].isActive
                  /\ now < subscriptions[sender].startTime + SUBSCRIPTION_DURATION),
                "Already subscribed")
    >>)

subscribeStatus(sender, value) ==
    FirstFailure(<<
        Require(value = PREMIUM, "Premium must be 0.1 ETH"),
        Require(~subscriptions[sender].isActive, "Already subscribed")
    >>)

\* push(msg.sender) when variant 1; push unless already listed when variant 2
PushSubscriber(list, sender) ==
    IF variant = 2 /\ Contains(list, sender) THEN list ELSE Append(list, sender)

\* variant 2 only: push unless already listed
PushUserWithFlights(list, sender) ==
    IF variant = 1 \/ Contains(list, sender) THEN list ELSE Append(list, sender)

\* mutant: the start time of every account's subscription is set
subscribeResult_RestartsAll(sender, value) ==
    IF subscribeStatus(sender, value) = OK
    THEN [Ledger EXCEPT !.subscriptions =
                            [u \in Accounts |->
                                IF u = sender
                                THEN [@[u] EXCEPT !.isActive = TRUE, !.startTime = now]
                                ELSE [@[u] EXCEPT !.startTime = now]],
                        !.allSubscribers = PushSubscriber(@, sender),
                        !.allUsersWithFlights = PushUserWithFlights(@, sender),
                        !.balance = @ + value]
    ELSE Ledger

\* mutant: a new subscription starts with no policies
subscribeResult_FreshPolicies(sender, value) ==
    IF subscribeStatus(sender, value) = OK
    THEN [Ledger EXCEPT !.subscriptions[sender].isActive = TRUE,
                        !.subscriptions[sender].startTime = now,
                        !.subscriptions[sender].policies = <<>>,
                        !.allSubscribers = PushSubscriber(@, sender),
                        !.allUsersWithFlights = PushUserWithFlights(@, sender),
                        !.balance = @ + value]
    ELSE Ledger

subscribeResult(sender, value) ==
    IF subscribeStatus(sender, value) = OK
    THEN [Ledger EXCEPT !.subscriptions[sender].isActive = TRUE,
                        !.subscriptions[sender].startTime = now,
                        !.allSubscribers = PushSubscriber(@, sender),
                        !.allUsersWithFlights = PushUserWithFlights(@, sender),
                        !.balance = @ + value]
    ELSE Ledger

subscribe(sender, value) ==
    /\ Commit(subscribeResult(sender, value))
    /\ UNCHANGED <<lapsed, subscribedAt, registrations, expiredSeen, reportedEarly,
                   poolShort, reported, deposited, subscribeCount>>

\* the same call, with the number of successful subscribe calls kept
subscribeAudited(sender, value) ==
    /\ Commit(subscribeResult(sender, value))
    /\ subscribeCount' = IF subscribeStatus(sender, value) = OK
                         THEN subscribeCount + 1
                         ELSE subscribeCount
    /\ UNCHANGED <<lapsed, subscribedAt, registrations, expiredSeen, reportedEarly,
                   poolShort, reported, deposited>>

\* the same call, with the time of the caller's last subscription kept
subscribeTracked(sender, value) ==
    /\ Commit(subscribeResult(sender, value))
    /\ subscribedAt' = IF subscribeStatus(sender, value) = OK
                       THEN [subscribedAt EXCEPT ![sender] = now]
                       ELSE subscribedAt
    /\ expiredSeen' = IF subscribeStatus(sender, value) = OK
                      THEN expiredSeen \ {sender}
                      ELSE expiredSeen
    /\ UNCHANGED <<lapsed, registrations, reportedEarly,
                   poolShort, reported, deposited, subscribeCount>>

-----------------------------------------------------------------------------
(* registerFlight *)

\* mutant: the scan stops one policy short
FlightRegistered_ShortLoop(policies, flightID) ==
    \E i \in 1..(Len(policies) - 1) : policies[i].flightID = flightID

\* the linear scan for a policy with the same flightID
FlightRegistered(policies, flightID) ==
    \E i \in 1..Len(policies) : policies[i].flightID = flightID

\* mutant: variant 1 checks the active flag and not the expiry
registerFlightStatus_NoExpiry(sender, flightID) ==
    LET sub == subscriptions[sender] IN
    FirstFailure(<<
        IF variant = 2 THEN notOracle(sender) ELSE OK,
        IF variant = 1 THEN Require(sub.isActive, "No active subscription") ELSE OK,
        Require(~FlightRegistered(sub.policies, flightID), "Flight already registered")
    >>)

registerFlightStatus(sender, flightID) ==
    LET sub == subscriptions[sender] IN
    FirstFailure(<<
        IF variant = 2 THEN notOracle(sender) ELSE OK,
        IF variant = 1 THEN Require(sub.isActive, "No active subscription") ELSE OK,
        IF variant = 1
        THEN Require(now < sub.startTime + SUBSCRIPTION_DURATION, "Subscription expired")
        ELSE OK,
        Require(~FlightRegistered(sub.policies, flightID), "Flight already registered")
    >>)

\* mutant: the caller is not added to allUsersWithFlights
registerFlightResult_NotListed(sender, flightID, flightTimestamp) ==
    IF registerFlightStatus(sender, flightID) = OK
    THEN [Ledger EXCEPT !.subscriptions[sender].policies =
                            Append(@, Policy(flightID, flightTimestamp))]
    ELSE Ledger

\* mutant: the new policy is put in front of the caller's policies
registerFlightResult_Prepend(sender, flightID, flightTimestamp) ==
    IF registerFlightStatus(sender, flightID) = OK
    THEN [Ledger EXCEPT !.subscriptions[sender].policies =
                            <<Policy(flightID, flightTimestamp)>> \o @,
                        !.allUsersWithFlights = PushUserWithFlights(@, sender)]
    ELSE Ledger

registerFlightResult(sender, flightID, flightTimestamp) ==
    IF registerFlightStatus(sender, flightID) = OK
    THEN [Ledger EXCEPT !.subscriptions[sender].policies =
                            Append(@, Policy(flightID, flightTimestamp)),
                        !.allUsersWithFlights = PushUserWithFlights(@, sender)]
    ELSE Ledger

registerFlight(sender, flightID, flightTimestamp) ==
    /\ registerFlightStatus(sender, flightID) = OK => RoomForPolicy
    /\ Commit(registerFlightResult(sender, flightID, flightTimestamp))
    /\ UNCHANGED <<lapsed, subscribedAt, registrations, expiredSeen, reportedEarly,
                   poolShort, reported, deposited, subscribeCount>>

\* the same call, with the history of the caller's registrations kept
registerFlightTracked(sender, flightID, flightTimestamp) ==
    /\ registerFlightStatus(sender, flightID) = OK => RoomForPolicy
    /\ Commit(registerFlightResult(sender, flightID, flightTimestamp))
    /\ registrations' =
           IF registerFlightStatus(sender, flightID) = OK
           THEN [registrations EXCEPT ![sender] = Append(@, <<flightID, flightTimestamp>>)]
           ELSE registrations
    /\ UNCHANGED <<lapsed, subscribedAt, expiredSeen, reportedEarly,
                   poolShort, reported, deposited, subscribeCount>>

-----------------------------------------------------------------------------
(* updateFlightStatus *)

\* The storage the scan works on, and the revert it may end in.
ScanState(subs, bal, recv) == [subs |-> subs, bal |-> bal, recv |-> recv, err |-> OK]

Revert(st, reason) == [st EXCEPT !.err = reason]

\* mutant: a payout the pool cannot fund is skipped and the scan goes on
PayOut_SkipUnfunded(st, user, j) ==
    IF st.bal < PAYOUT
    THEN st
    ELSE [st EXCEPT !.subs[user].policies[j].hasPaidOut = TRUE,
                    !.bal = @ - PAYOUT,
                    !.recv[user] = @ + PAYOUT]

\* mutant: the policy is marked although the transfer cannot be made
PayOut_MarkThenFail(st, user, j) ==
    [st EXCEPT !.subs[user].policies[j].hasPaidOut = TRUE,
               !.bal = IF @ < PAYOUT THEN @ ELSE @ - PAYOUT,
               !.recv[user] = IF st.bal < PAYOUT THEN @ ELSE @ + PAYOUT]

\* mutant: the transfer is made and the flag is not set
PayOut_NoFlag(st, user, j) ==
    IF st.bal < PAYOUT
    THEN Revert(st, "InsufficientPool")
    ELSE [st EXCEPT !.bal = @ - PAYOUT, !.recv[user] = @ + PAYOUT]

\* policy.hasPaidOut = true; payable(user).transfer(PAYOUT);
\* transfer reverts when the contract holds less than PAYOUT
PayOut(st, user, j) ==
    IF st.bal < PAYOUT
    THEN Revert(st, "InsufficientPool")
    ELSE [st EXCEPT !.subs[user].policies[j].hasPaidOut = TRUE,
                    !.bal = @ - PAYOUT,
                    !.recv[user] = @ + PAYOUT]

\* policy.flightTimestamp + DELAY_THRESHOLD, -1 when the checked sum overflows
DueTime(policy) == CheckedAdd(policy.flightTimestamp, DELAY_THRESHOLD)

\* mutant: every policy counts as past the threshold
MeetsDelay_Always(policy, t) == TRUE

\* mutant: the threshold instant itself does not qualify
MeetsDelay_Strict(policy, t) == t > DueTime(policy)

\* block.timestamp >= policy.flightTimestamp + DELAY_THRESHOLD
MeetsDelay(policy, t) == t >= DueTime(policy)

\* variant 1, lines 102-109: the sum is computed only for an unpaid policy of
\* the reported flight (&& short-circuits)
PolicyStep1(st, user, j, flightID, t) ==
    LET policy == st.subs[user].policies[j] IN
    IF policy.flightID = flightID /\ ~policy.hasPaidOut
    THEN IF DueTime(policy) = -1 THEN Revert(st, "Panic(0x11)")
         ELSE IF MeetsDelay(policy, t) THEN PayOut(st, user, j)
         ELSE st
    ELSE st

\* variant 2, lines 136-155: meetsDelay is computed for every policy scanned
PolicyStep2(st, user, j, flightID, isActive, t) ==
    LET policy == st.subs[user].policies[j] IN
    IF DueTime(policy) = -1 THEN Revert(st, "Panic(0x11)")
    ELSE IF policy.flightID = flightID /\ ~policy.hasPaidOut /\ MeetsDelay(policy, t)
    THEN IF isActive THEN PayOut(st, user, j) ELSE st
    ELSE st

RECURSIVE ScanPolicies(_, _, _, _, _, _)
ScanPolicies(st, user, j, flightID, isActive, t) ==
    IF st.err # OK \/ j > Len(st.subs[user].policies) THEN st
    ELSE ScanPolicies(IF variant = 1
                      THEN PolicyStep1(st, user, j, flightID, t)
                      ELSE PolicyStep2(st, user, j, flightID, isActive, t),
                      user, j + 1, flightID, isActive, t)

\* mutant: a subscription counts as run out once the delay threshold has passed
Expired_AtThreshold(sub, t) == t >= sub.startTime + DELAY_THRESHOLD

\* mutant: no subscription ever counts as run out
Expired_Never(sub, t) == FALSE

Expired(sub, t) == t >= sub.startTime + SUBSCRIPTION_DURATION

\* variant 1, lines 90-110: an expired subscriber is deactivated and skipped
SubscriberStep1(st, user, flightID, t) ==
    IF Expired(st.subs[user], t)
    THEN [st EXCEPT !.subs[user].isActive = FALSE]
    ELSE ScanPolicies(st, user, 1, flightID, TRUE, t)

\* mutant: the payouts are decided by the flag as it was stored, not by the
\* recomputed one
SubscriberStep2_StoredFlag(st, user, flightID, t) ==
    LET sub == st.subs[user]
        isActive == sub.isActive /\ ~Expired(sub, t)
        st1 == IF sub.isActive /\ ~isActive
               THEN [st EXCEPT !.subs[user].isActive = FALSE]
               ELSE st
    IN  ScanPolicies(st1, user, 1, flightID, sub.isActive, t)

\* variant 2, lines 127-156: isActive is recomputed, stored when it fell, and
\* decides each payout
SubscriberStep2(st, user, flightID, t) ==
    LET sub == st.subs[user]
        isActive == sub.isActive /\ ~Expired(sub, t)
        st1 == IF sub.isActive /\ ~isActive
               THEN [st EXCEPT !.subs[user].isActive = FALSE]
               ELSE st
    IN  ScanPolicies(st1, user, 1, flightID, isActive, t)

\* the list the scan walks
ScanList == IF variant = 1 THEN allSubscribers ELSE allUsersWithFlights

RECURSIVE ScanSubscribers(_, _, _, _, _)
ScanSubscribers(st, list, i, flightID, t) ==
    IF st.err # OK \/ i > Len(list) THEN st
    ELSE ScanSubscribers(IF variant = 1
                         THEN SubscriberStep1(st, list[i], flightID, t)
                         ELSE SubscriberStep2(st, list[i], flightID, t),
                         list, i + 1, flightID, t)

\* mutant: the loops run whatever status is reported
Scan_AnyStatus(flightID, delayed) ==
    ScanSubscribers(ScanState(subscriptions, balance, received),
                    ScanList, 1, flightID, now)

\* the body of updateFlightStatus below the modifier
Scan(flightID, delayed) ==
    IF delayed
    THEN ScanSubscribers(ScanState(subscriptions, balance, received),
                         ScanList, 1, flightID, now)
    ELSE ScanState(subscriptions, balance, received)

isSubscribed(user) ==
    LET sub == subscriptions[user]
    IN  sub.isActive /\ now < sub.startTime + SUBSCRIPTION_DURATION

\* history only: the holders of an unpaid policy of flightID that is past the
\* threshold now, who are not subscribed now
Lapsing(flightID) ==
    {<<user, flightID>> : user \in
        {u \in Accounts :
            /\ ~isSubscribed(u)
            /\ \E j \in 1..Len(subscriptions[u].policies) :
                   LET policy == subscriptions[u].policies[j]
                   IN  /\ policy.flightID = flightID
                       /\ ~policy.hasPaidOut
                       /\ now >= policy.flightTimestamp + DELAY_THRESHOLD}}

\* the modifier first; the body runs only for the oracle
updateFlightStatusStatus(sender, flightID, delayed) ==
    IF onlyOracle(sender) # OK THEN onlyOracle(sender)
    ELSE Scan(flightID, delayed).err

\* mutant: the flight is recorded delayed whatever is reported
updateFlightStatusResult_RecordsDelayed(sender, flightID, delayed) ==
    IF onlyOracle(sender) # OK THEN Ledger
    ELSE LET st == Scan(flightID, delayed) IN
         IF st.err # OK THEN Ledger
         ELSE [Ledger EXCEPT !.flightDelays[flightID] = TRUE,
                             !.subscriptions = st.subs,
                             !.balance = st.bal,
                             !.received = st.recv]

updateFlightStatusResult(sender, flightID, delayed) ==
    IF onlyOracle(sender) # OK THEN Ledger
    ELSE LET st == Scan(flightID, delayed) IN
         IF st.err # OK THEN Ledger
         ELSE [Ledger EXCEPT !.flightDelays[flightID] = delayed,
                             !.subscriptions = st.subs,
                             !.balance = st.bal,
                             !.received = st.recv]

updateFlightStatus(sender, flightID, delayed) ==
    /\ Commit(updateFlightStatusResult(sender, flightID, delayed))
    /\ UNCHANGED <<lapsed, subscribedAt, registrations, expiredSeen, reportedEarly,
                   poolShort, reported, deposited, subscribeCount>>

\* history only: the accounts on the scanned list whose last subscription,
\* taken at subscribedAt, has run out now
RunOut ==
    {ScanList[i] : i \in {k \in 1..Len(ScanList) :
                             /\ subscribedAt[ScanList[k]] # -1
                             /\ now >= subscribedAt[ScanList[k]] + SUBSCRIPTION_DURATION}}

\* history only: the holders of an unpaid policy of flightID that is before
\* its threshold now
TooEarly(flightID) ==
    {<<user, flightID>> : user \in
        {u \in Accounts :
            \E j \in 1..Len(subscriptions[u].policies) :
                LET policy == subscriptions[u].policies[j]
                IN  /\ policy.flightID = flightID
                    /\ ~policy.hasPaidOut
                    /\ now < policy.flightTimestamp + DELAY_THRESHOLD}}

\* the same call, with the history of lapsed holders kept
updateFlightStatusTracked(sender, flightID, delayed) ==
    /\ Commit(updateFlightStatusResult(sender, flightID, delayed))
    /\ lapsed' = IF delayed /\ updateFlightStatusStatus(sender, flightID, delayed) = OK
                 THEN lapsed \cup Lapsing(flightID)
                 ELSE lapsed
    /\ expiredSeen' = IF delayed /\ updateFlightStatusStatus(sender, flightID, delayed) = OK
                      THEN expiredSeen \cup RunOut
                      ELSE expiredSeen
    /\ UNCHANGED <<subscribedAt, registrations, reportedEarly,
                   poolShort, reported, deposited, subscribeCount>>

\* the same call, with the history of the policies reported too early kept
updateFlightStatusEarlyTracked(sender, flightID, delayed) ==
    /\ Commit(updateFlightStatusResult(sender, flightID, delayed))
    /\ reportedEarly' = IF delayed /\ updateFlightStatusStatus(sender, flightID, delayed) = OK
                        THEN reportedEarly \cup TooEarly(flightID)
                        ELSE reportedEarly
    /\ UNCHANGED <<lapsed, subscribedAt, registrations, expiredSeen,
                   poolShort, reported, deposited, subscribeCount>>

\* the same call, with the history of the reports the pool could not fund kept
updateFlightStatusShortTracked(sender, flightID, delayed) ==
    /\ Commit(updateFlightStatusResult(sender, flightID, delayed))
    /\ poolShort' =
           IF delayed /\ updateFlightStatusStatus(sender, flightID, delayed) = "InsufficientPool"
           THEN poolShort \cup {flightID}
           ELSE IF delayed /\ updateFlightStatusStatus(sender, flightID, delayed) = OK
           THEN poolShort \ {flightID}
           ELSE poolShort
    /\ UNCHANGED <<lapsed, subscribedAt, registrations, expiredSeen, reportedEarly,
                   reported, deposited, subscribeCount>>

\* the same call, with the history of the reported flight ids kept
updateFlightStatusAudited(sender, flightID, delayed) ==
    /\ Commit(updateFlightStatusResult(sender, flightID, delayed))
    /\ reported' = IF updateFlightStatusStatus(sender, flightID, delayed) = OK
                   THEN reported \cup {flightID}
                   ELSE reported
    /\ UNCHANGED <<lapsed, subscribedAt, registrations, expiredSeen, reportedEarly,
                   poolShort, deposited, subscribeCount>>

-----------------------------------------------------------------------------
(* Read queries (isSubscribed is defined above) *)

getContractBalance == balance

getPolicyCount(user) == Len(subscriptions[user].policies)

\* mutant: the three arrays are filled from the last policy to the first
getUserPolicies_Reversed(user) ==
    LET policies == subscriptions[user].policies
        n == Len(policies)
    IN  <<[i \in 1..n |-> policies[n + 1 - i].flightID],
          [i \in 1..n |-> policies[n + 1 - i].flightTimestamp],
          [i \in 1..n |-> policies[n + 1 - i].hasPaidOut]>>

\* the arrays flightIDs, timestamps, paidOuts, each of sub.policies.length
getUserPolicies(user) ==
    LET policies == subscriptions[user].policies
        n == Len(policies)
    IN  <<[i \in 1..n |-> policies[i].flightID],
          [i \in 1..n |-> policies[i].flightTimestamp],
          [i \in 1..n |-> policies[i].hasPaidOut]>>

-----------------------------------------------------------------------------
(* The clock: block.timestamp never decreases between calls *)

AdvanceTime(t) ==
    /\ t > now
    /\ now' = t
    /\ UNCHANGED <<variant, insurer, oracle, subscriptions, flightDelays,
                   allSubscribers, allUsersWithFlights, balance, received, lapsed,
                   subscribedAt, registrations, expiredSeen, reportedEarly,
                   poolShort, reported, deposited, subscribeCount>>

-----------------------------------------------------------------------------

Next ==
    \/ \E sender \in Accounts, _oracle \in OracleCandidates : setOracle(sender, _oracle)
    \/ \E sender \in Accounts, value \in Deposits : depositFunds(sender, value)
    \/ \E sender \in Subscribers, value \in Payments : subscribe(sender, value)
    \/ \E sender \in Subscribers, flightID \in FlightIDs, flightTimestamp \in FlightTimestamps :
           registerFlight(sender, flightID, flightTimestamp)
    \/ \E sender \in Accounts, flightID \in FlightIDs, delayed \in BOOLEAN :
           updateFlightStatus(sender, flightID, delayed)
    \/ \E t \in Times : AdvanceTime(t)

Spec == Init /\ [][Next]_vars

\* The same machine with the history variables kept up to date.
NextTracked ==
    \/ \E sender \in Accounts, _oracle \in OracleCandidates : setOracle(sender, _oracle)
    \/ \E sender \in Accounts, value \in Deposits : depositFunds(sender, value)
    \/ \E sender \in Subscribers, value \in Payments : subscribeTracked(sender, value)
    \/ \E sender \in Subscribers, flightID \in FlightIDs, flightTimestamp \in FlightTimestamps :
           registerFlightTracked(sender, flightID, flightTimestamp)
    \/ \E sender \in Accounts, flightID \in FlightIDs, delayed \in BOOLEAN :
           updateFlightStatusTracked(sender, flightID, delayed)
    \/ \E t \in Times : AdvanceTime(t)

SpecTracked == Init /\ [][NextTracked]_vars

\* The same machine with registerFlight also given a flightTimestamp so large
\* that flightTimestamp + DELAY_THRESHOLD exceeds the unsigned word.
FlightTimestampsWide == {0, MAX_UINT - 1}

NextWide ==
    \/ \E sender \in Accounts, _oracle \in OracleCandidates : setOracle(sender, _oracle)
    \/ \E sender \in Accounts, value \in Deposits : depositFunds(sender, value)
    \/ \E sender \in Subscribers, value \in Payments : subscribe(sender, value)
    \/ \E sender \in Subscribers, flightID \in FlightIDs,
          flightTimestamp \in FlightTimestampsWide :
           registerFlight(sender, flightID, flightTimestamp)
    \/ \E sender \in Accounts, flightID \in FlightIDs, delayed \in BOOLEAN :
           updateFlightStatus(sender, flightID, delayed)
    \/ \E t \in Times : AdvanceTime(t)

SpecWide == Init /\ [][NextWide]_vars

\* The machine of SpecWide with the history of early reports kept.
NextRepeat ==
    \/ \E sender \in Accounts, _oracle \in OracleCandidates : setOracle(sender, _oracle)
    \/ \E sender \in Accounts, value \in Deposits : depositFunds(sender, value)
    \/ \E sender \in Subscribers, value \in Payments : subscribe(sender, value)
    \/ \E sender \in Subscribers, flightID \in FlightIDs,
          flightTimestamp \in FlightTimestampsWide :
           registerFlight(sender, flightID, flightTimestamp)
    \/ \E sender \in Accounts, flightID \in FlightIDs, delayed \in BOOLEAN :
           updateFlightStatusEarlyTracked(sender, flightID, delayed)
    \/ \E t \in Times : AdvanceTime(t)

SpecRepeat == Init /\ [][NextRepeat]_vars

\* The machine of Spec with the history of deposits, subscribe calls and
\* reported flight ids kept.
NextAudit ==
    \/ \E sender \in Accounts, _oracle \in OracleCandidates : setOracle(sender, _oracle)
    \/ \E sender \in Accounts, value \in Deposits : depositFundsAudited(sender, value)
    \/ \E sender \in Subscribers, value \in Payments : subscribeAudited(sender, value)
    \/ \E sender \in Subscribers, flightID \in FlightIDs, flightTimestamp \in FlightTimestamps :
           registerFlight(sender, flightID, flightTimestamp)
    \/ \E sender \in Accounts, flightID \in FlightIDs, delayed \in BOOLEAN :
           updateFlightStatusAudited(sender, flightID, delayed)
    \/ \E t \in Times : AdvanceTime(t)

SpecAudit == Init /\ [][NextAudit]_vars

\* The machine of SpecWide with the history of underfunded reports kept.
NextRetry ==
    \/ \E sender \in Accounts, _oracle \in OracleCandidates : setOracle(sender, _oracle)
    \/ \E sender \in Accounts, value \in Deposits : depositFunds(sender, value)
    \/ \E sender \in Subscribers, value \in Payments : subscribe(sender, value)
    \/ \E sender \in Subscribers, flightID \in FlightIDs,
          flightTimestamp \in FlightTimestampsWide :
           registerFlight(sender, flightID, flightTimestamp)
    \/ \E sender \in Accounts, flightID \in FlightIDs, delayed \in BOOLEAN :
           updateFlightStatusShortTracked(sender, flightID, delayed)
    \/ \E t \in Times : AdvanceTime(t)

SpecRetry == Init /\ [][NextRetry]_vars

-----------------------------------------------------------------------------
(* Vocabulary of the properties.  A property of a call is stated in every  *)
(* reachable state, of the status of the call and of the ledger it commits. *)

Policies(u) == subscriptions[u].policies

Holds(u, flightID) == \E j \in 1..Len(Policies(u)) : Policies(u)[j].flightID = flightID

\* the stored subscription is active and unexpired at the current time
ActiveUnexpired(u) ==
    /\ subscriptions[u].isActive
    /\ now < subscriptions[u].startTime + SUBSCRIPTION_DURATION

\* unpaid policies of flightID past the delay threshold at the current time
Qualifying(flightID) ==
    {k \in Accounts \X (1..MaxPolicies) :
        /\ k[2] <= Len(Policies(k[1]))
        /\ Policies(k[1])[k[2]].flightID = flightID
        /\ ~Policies(k[1])[k[2]].hasPaidOut
        /\ now >= Policies(k[1])[k[2]].flightTimestamp + DELAY_THRESHOLD}

\* those of them whose holder is subscribed: the policies a delayed report owes
DuePolicies(flightID) == {k \in Qualifying(flightID) : ActiveUnexpired(k[1])}

\* the policies of u that are unpaid now and paid in ledger l
NewlyPaid(l, u) ==
    {j \in 1..Len(Policies(u)) :
        /\ ~Policies(u)[j].hasPaidOut
        /\ j <= Len(l.subscriptions[u].policies)
        /\ l.subscriptions[u].policies[j].hasPaidOut}

\* P holds of the ledger every depositFunds, subscribe, registerFlight and
\* updateFlightStatus call commits from the current state
OfOtherCallResults(P(_)) ==
    /\ \A s \in Accounts, v \in Deposits : P(depositFundsResult(s, v))
    /\ \A s \in Accounts, v \in Payments : P(subscribeResult(s, v))
    /\ \A s \in Accounts, f \in FlightIDs, t \in FlightTimestamps : P(registerFlightResult(s, f, t))
    /\ \A s \in Accounts, f \in FlightIDs, d \in BOOLEAN : P(updateFlightStatusResult(s, f, d))

\* P holds of the ledger every call commits from the current state
OfCallResults(P(_)) ==
    /\ OfOtherCallResults(P)
    /\ \A s \in Accounts, o \in OracleCandidates : P(setOracleResult(s, o))

-----------------------------------------------------------------------------
(* C1: in both variants, whatever call is made in whatever reachable state  *)
(* (so across any sequence of calls, with time advancing between them), a   *)
(* policy's paid_out flag never returns from true to false, so it turns     *)
(* true at most once, and the call sends a holder exactly PAYOUT for each   *)
(* of the holder's policies whose flag it turns true and nothing else: no   *)
(* policy is paid twice.                                                    *)
C1_FlagsKeptPayoutPerFlag(l) ==
    \A u \in Accounts :
        /\ \A j \in 1..Len(Policies(u)) :
              Policies(u)[j].hasPaidOut =>
                  /\ j <= Len(l.subscriptions[u].policies)
                  /\ l.subscriptions[u].policies[j].hasPaidOut
        /\ l.received[u] = received[u] + PAYOUT * Cardinality(NewlyPaid(l, u))

C1_PaidOutAtMostOnce == OfCallResults(C1_FlagsKeptPayoutPerFlag)

\* a paid policy whose flight was reported again (not delayed) after the payout
C1_Witness ==
    \E u \in Accounts : \E j \in 1..Len(Policies(u)) :
        /\ Policies(u)[j].hasPaidOut
        /\ ~flightDelays[Policies(u)[j].flightID]
        /\ received[u] = PAYOUT

-----------------------------------------------------------------------------
(* C2: no retroactive credit.  Once a successful delayed report of a flight *)
(* has met a holder's unpaid policy for it, past the threshold, while the   *)
(* holder was not subscribed (inactive or expired), that policy is unpaid   *)
(* in every later state, whatever the holder and the oracle do afterwards.  *)
(* Checked under SpecTracked, where `lapsed` records those meetings.        *)
C2_NoRetroactiveCredit ==
    \A k \in lapsed :
        \A j \in 1..Len(Policies(k[1])) :
            Policies(k[1])[j].flightID = k[2] => ~Policies(k[1])[j].hasPaidOut

-----------------------------------------------------------------------------
-----------------------------------------------------------------------------
(* C4: when a subscribed holder has an unpaid policy of f past the          *)
(* threshold and the pool holds less than PAYOUT, updateFlightStatus(f,     *)
(* true) by the oracle fails for the insufficient pool and marks no policy  *)
(* paid.                                                                    *)
C4_Underfunded(f) ==
    /\ oracle \in Accounts
    /\ DuePolicies(f) # {}
    /\ balance < PAYOUT

C4_InsufficientPoolFails ==
    \A f \in FlightIDs :
        C4_Underfunded(f) =>
            /\ updateFlightStatusStatus(oracle, f, TRUE) = "InsufficientPool"
            /\ LET l == updateFlightStatusResult(oracle, f, TRUE)
               IN  \A u \in Accounts : NewlyPaid(l, u) = {}

\* a qualifying delay can be reported by the oracle while the pool is short
C4_Witness ==
    \E f \in FlightIDs : C4_Underfunded(f) /\ balance = PREMIUM

-----------------------------------------------------------------------------
(* C5: updateFlightStatus is all-or-nothing.  When at least two policies    *)
(* are due for f and the pool covers some of them but not all, the oracle's *)
(* delayed report fails and commits the ledger it found: nobody is paid, no *)
(* paid_out flag is set, no active flag is cleared, the pool and the        *)
(* recorded status of the flight are unchanged.                             *)
C5_PartlyFunded(f) ==
    /\ oracle \in Accounts
    /\ Cardinality(DuePolicies(f)) >= 2
    /\ balance >= PAYOUT
    /\ balance < PAYOUT * Cardinality(DuePolicies(f))

C5_AllOrNothing ==
    \A f \in FlightIDs :
        C5_PartlyFunded(f) =>
            /\ updateFlightStatusStatus(oracle, f, TRUE) # OK
            /\ updateFlightStatusResult(oracle, f, TRUE) = Ledger

\* two subscribers are due a payout and the pool covers exactly one
C5_Witness ==
    \E f \in FlightIDs : C5_PartlyFunded(f) /\ ~flightDelays[f]

-----------------------------------------------------------------------------
(* C6: subscribe with a payment other than PREMIUM, smaller or larger,      *)
(* fails in every reachable state, whoever calls, and commits the ledger it *)
(* found: the caller's Subscription, the subscriber lists and the pool      *)
(* stay as they were.                                                       *)
C6_WrongPremiumRejected ==
    \A sender \in Accounts : \A value \in Payments \ {PREMIUM} :
        /\ subscribeStatus(sender, value) = "Premium must be 0.1 ETH"
        /\ subscribeResult(sender, value) = Ledger

\* a returning subscriber who is accepted with PREMIUM and with nothing else
C6_Witness ==
    \E sender \in Accounts :
        /\ subscribeStatus(sender, PREMIUM) = OK
        /\ Contains(allSubscribers, sender)
        /\ subscribeStatus(sender, PREMIUM - 1) # OK
        /\ subscribeStatus(sender, PREMIUM + 1) # OK

-----------------------------------------------------------------------------
(* C7: no account ever holds two policies with the same flightID.  A        *)
(* registerFlight call with a flightID the caller already holds fails and   *)
(* leaves the caller's policies as they were; the duplicate check looks at  *)
(* the caller's own policies only, so another account holding the flightID  *)
(* never makes it fail.                                                     *)
C7_FlightUniquePerSubscriber ==
    \A u \in Accounts :
        /\ \A i, j \in 1..Len(Policies(u)) :
              Policies(u)[i].flightID = Policies(u)[j].flightID => i = j
        /\ \A f \in FlightIDs :
              /\ Holds(u, f) =>
                    /\ registerFlightStatus(u, f) # OK
                    /\ \A t \in FlightTimestamps :
                          registerFlightResult(u, f, t).subscriptions[u]
                              = subscriptions[u]
              /\ registerFlightStatus(u, f) = "Flight already registered"
                    => Holds(u, f)

\* two accounts hold a policy for the same flightID
C7_Witness ==
    \E u, v \in Accounts : \E f \in FlightIDs :
        u # v /\ Holds(u, f) /\ Holds(v, f)

-----------------------------------------------------------------------------
(* C8: updateFlightStatus called by any account other than the current      *)
(* oracle fails as unauthorized and commits the ledger it found: no status  *)
(* is recorded, no policy is marked paid, no funds move.                    *)
C8_OnlyOracleUpdates ==
    \A sender \in Accounts : \A f \in FlightIDs : \A d \in BOOLEAN :
        sender # oracle =>
            /\ updateFlightStatusStatus(sender, f, d)
                   = "Only oracle can call this function"
            /\ updateFlightStatusResult(sender, f, d) = Ledger

\* a report that would pay if the oracle made it, and there is an oracle
C8_Witness ==
    \E f \in FlightIDs :
        /\ oracle \in Accounts /\ oracle # insurer
        /\ DuePolicies(f) # {}
        /\ balance >= PAYOUT

-----------------------------------------------------------------------------
(* C9: the oracle address changes only through a successful setOracle call  *)
(* of the insurer.  setOracle from any other caller fails and leaves the    *)
(* oracle as it was, and no depositFunds, subscribe, registerFlight or      *)
(* updateFlightStatus call changes it.                                      *)
C9_OracleKept(l) == l.oracle = oracle

C9_OracleSetByInsurerOnly ==
    /\ \A sender \in Accounts : \A o \in OracleCandidates :
          /\ sender # insurer =>
                /\ setOracleStatus(sender, o) # OK
                /\ setOracleResult(sender, o) = Ledger
          /\ setOracleResult(sender, o).oracle # oracle =>
                /\ sender = insurer
                /\ setOracleStatus(sender, o) = OK
                /\ setOracleResult(sender, o).oracle = o
    /\ OfOtherCallResults(C9_OracleKept)

\* the oracle is no longer the one the constructor left
C9_Witness ==
    /\ oracle = "acc1"
    /\ oracle # insurer

-----------------------------------------------------------------------------
(* C10: subscribe by a caller whose stored Subscription is active fails as  *)
(* already subscribed, even with a payment of exactly PREMIUM and even when *)
(* the subscription has run out, and commits the ledger it found:           *)
(* startTime is not refreshed and the pool does not grow.                   *)
C10_AlreadySubscribedRejected ==
    \A sender \in Accounts :
        subscriptions[sender].isActive =>
            /\ subscribeStatus(sender, PREMIUM) = "Already subscribed"
            /\ subscribeResult(sender, PREMIUM) = Ledger

\* a stored Subscription that is active although its period has run out
C10_Witness ==
    \E sender \in Accounts :
        /\ subscriptions[sender].isActive
        /\ now >= subscriptions[sender].startTime + SUBSCRIPTION_DURATION

-----------------------------------------------------------------------------
(* C11: in contracts/FlightInsurance.sol (variant 1), registerFlight from a *)
(* caller whose stored Subscription is not active (never subscribed, or     *)
(* deactivated) fails for the missing subscription, from a caller whose     *)
(* Subscription is active and has run out (now >= startTime +               *)
(* SUBSCRIPTION_DURATION) fails as expired, and in both cases the ledger    *)
(* is committed as found: no policy is appended.                            *)
C11_RegisterNeedsSubscription ==
    variant = 1 =>
        \A sender \in Accounts : \A f \in FlightIDs : \A t \in FlightTimestamps :
            ~isSubscribed(sender) =>
                /\ registerFlightStatus(sender, f) =
                       IF subscriptions[sender].isActive
                       THEN "Subscription expired"
                       ELSE "No active subscription"
                /\ registerFlightResult(sender, f, t) = Ledger

\* variant 1: a flag still active after the period ran out, a flight the
\* caller does not hold yet, and room for it
C11_Witness ==
    /\ variant = 1
    /\ \E sender \in Accounts : \E f \in FlightIDs :
          /\ subscriptions[sender].isActive
          /\ ~isSubscribed(sender)
          /\ ~Holds(sender, f)
          /\ RoomForPolicy

-----------------------------------------------------------------------------
(* C12: when the oracle reports f delayed at a time before flightTimestamp  *)
(* + DELAY_THRESHOLD of an account's unpaid policy for f, the ledger the    *)
(* report commits has that policy still unpaid and the account sent         *)
(* nothing, and the pool is lower only by PAYOUT for each policy the report *)
(* does mark paid, of which that policy is none.                            *)
C12_PaidBy(l) ==
    {k \in Accounts \X (1..MaxPolicies) : k[2] \in NewlyPaid(l, k[1])}

C12_NoPayoutBeforeThreshold ==
    \A f \in FlightIDs :
        LET l == updateFlightStatusResult(oracle, f, TRUE) IN
        \A u \in Accounts : \A j \in 1..Len(Policies(u)) :
            (/\ Policies(u)[j].flightID = f
             /\ ~Policies(u)[j].hasPaidOut
             /\ now < Policies(u)[j].flightTimestamp + DELAY_THRESHOLD)
            => /\ ~l.subscriptions[u].policies[j].hasPaidOut
               /\ l.received[u] = received[u]
               /\ <<u, j>> \notin C12_PaidBy(l)
               /\ l.balance = balance - PAYOUT * Cardinality(C12_PaidBy(l))

\* a delay was reported before the threshold of a subscribed holder's policy
\* while the pool could have paid it, and the policy is unpaid
C12_Witness ==
    \E u \in Accounts : \E j \in 1..Len(Policies(u)) :
        /\ flightDelays[Policies(u)[j].flightID]
        /\ ~Policies(u)[j].hasPaidOut
        /\ now < Policies(u)[j].flightTimestamp + DELAY_THRESHOLD
        /\ isSubscribed(u)
        /\ balance >= PAYOUT

-----------------------------------------------------------------------------
(* C13: updateFlightStatus(f, false) by the oracle succeeds and changes     *)
(* only the recorded delay status of f, which becomes false: every          *)
(* account's received amount, every paid_out flag, every active flag and    *)
(* the pool are as before, even when unpaid policies of f are past the      *)
(* threshold under active subscriptions, or subscriptions have run out.     *)
C13_NotDelayedOnlyRecords ==
    oracle \in Accounts =>
        \A f \in FlightIDs :
            /\ updateFlightStatusStatus(oracle, f, FALSE) = OK
            /\ updateFlightStatusResult(oracle, f, FALSE)
                   = [Ledger EXCEPT !.flightDelays[f] = FALSE]

\* a report of f as delayed would pay and would clear an active flag
C13_Witness ==
    \E f \in FlightIDs :
        /\ oracle \in Accounts
        /\ DuePolicies(f) # {}
        /\ balance >= PAYOUT
        /\ \E u \in Accounts : subscriptions[u].isActive /\ ~isSubscribed(u)

-----------------------------------------------------------------------------
(* C14: a successful updateFlightStatus(f, true) is idempotent.  In the     *)
(* ledger that a successful report of f as delayed by the oracle commits,   *)
(* the same report made at once (no call between, the clock unmoved) runs   *)
(* to its end without a revert and leaves that ledger as it is: no second   *)
(* payout, no change of pool, received amounts or flags, and f still        *)
(* recorded as delayed.                                                     *)

\* the loops of updateFlightStatus(f, true), run on ledger l at the current time
C14_ScanAgain(l, f) ==
    ScanSubscribers(ScanState(l.subscriptions, l.balance, l.received),
                    IF variant = 1 THEN l.allSubscribers ELSE l.allUsersWithFlights,
                    1, f, now)

C14_RepeatedReportIsNoOp ==
    \A f \in FlightIDs :
        updateFlightStatusStatus(oracle, f, TRUE) = OK =>
            LET l == updateFlightStatusResult(oracle, f, TRUE)
                again == C14_ScanAgain(l, f)
            IN  /\ l.oracle = oracle
                /\ l.flightDelays[f]
                /\ again.err = OK
                /\ again.subs = l.subscriptions
                /\ again.bal = l.balance
                /\ again.recv = l.received

\* f is recorded delayed, a policy of f has been paid, and reporting the
\* delay once more succeeds and changes nothing
C14_Witness ==
    \E f \in FlightIDs :
        /\ flightDelays[f]
        /\ \E u \in Accounts : \E j \in 1..Len(Policies(u)) :
              Policies(u)[j].flightID = f /\ Policies(u)[j].hasPaidOut
        /\ updateFlightStatusStatus(oracle, f, TRUE) = OK
        /\ updateFlightStatusResult(oracle, f, TRUE) = Ledger

-----------------------------------------------------------------------------
(* C15: subscribe with a payment of PREMIUM from a caller whose stored      *)
(* Subscription is not active succeeds; in the ledger it commits the        *)
(* caller is active with startTime the current time, the pool holds PREMIUM *)
(* more, and the caller's policies are the same sequence as before (ids,    *)
(* timestamps, paid_out flags, order), also on a re-subscription.  Nothing  *)
(* is sent to anyone and no other account's Subscription changes.          *)
C15_SubscribeEffect ==
    \A sender \in Accounts :
        ~subscriptions[sender].isActive =>
            LET l == subscribeResult(sender, PREMIUM) IN
            /\ subscribeStatus(sender, PREMIUM) = OK
            /\ l.subscriptions[sender].isActive
            /\ l.subscriptions[sender].startTime = now
            /\ l.subscriptions[sender].policies = Policies(sender)
            /\ l.balance = balance + PREMIUM
            /\ l.received = received
            /\ \A u \in Accounts \ {sender} : l.subscriptions[u] = subscriptions[u]

\* a former subscriber about to re-subscribe at a later time, holding a policy
C15_Witness ==
    \E sender \in Accounts :
        /\ ~subscriptions[sender].isActive
        /\ Contains(allSubscribers, sender)
        /\ Len(Policies(sender)) > 0
        /\ now > subscriptions[sender].startTime

-----------------------------------------------------------------------------
(* C16: after a successful subscribe of an account at time t, whatever      *)
(* calls anyone makes afterwards, isSubscribed(account) is true at every    *)
(* time before t + SUBSCRIPTION_DURATION and false from then on, until the  *)
(* account's next successful subscribe; before the first it is false.       *)
(* isSubscribed is a function of the state and the time and makes no step.  *)
(* Checked under SpecTracked, where subscribedAt records t.                 *)
C16_SubscribedExactlyForDuration ==
    \A u \in Accounts :
        isSubscribed(u) =
            (/\ subscribedAt[u] # -1
             /\ now < subscribedAt[u] + SUBSCRIPTION_DURATION)

\* one account's subscription has run out and a delayed report has cleared
\* its flag, while another, taken later, is still running
C16_Witness ==
    \E u, v \in Accounts :
        /\ subscribedAt[u] # -1
        /\ ~subscriptions[u].isActive
        /\ subscribedAt[v] > 0
        /\ isSubscribed(v)

-----------------------------------------------------------------------------
(* C17: depositFunds is restricted to the administrator.  Called by the     *)
(* insurer with an amount above 0 it succeeds and commits the ledger it     *)
(* found with the pool higher by exactly the amount and nothing else        *)
(* changed (oracle, subscriptions, policies, flight statuses, lists);       *)
(* called by any other account, with any amount, it fails and commits the   *)
(* ledger it found.                                                         *)
C17_DepositByInsurerOnly ==
    \A sender \in Accounts : \A value \in Deposits :
        /\ (sender = insurer /\ value > 0) =>
              /\ depositFundsStatus(sender, value) = OK
              /\ depositFundsResult(sender, value)
                     = [Ledger EXCEPT !.balance = balance + value]
        /\ sender # insurer =>
              /\ depositFundsStatus(sender, value) # OK
              /\ depositFundsResult(sender, value) = Ledger

\* a deposit has been made in a ledger with subscribers, policies and a
\* recorded delay
C17_Witness ==
    /\ balance >= PAYOUT
    /\ allSubscribers # <<>>
    /\ PolicyTotal > 0
    /\ \E f \in FlightIDs : flightDelays[f]

-----------------------------------------------------------------------------
(* C18: depositFunds with amount 0 fails, whoever calls, and commits the    *)
(* ledger it found, in both variants.                                       *)
C18_ZeroDepositRejected ==
    \A sender \in Accounts :
        /\ depositFundsStatus(sender, 0) # OK
        /\ depositFundsResult(sender, 0) = Ledger

-----------------------------------------------------------------------------
(* C19: in unnamed/part_002 (variant 2), registerFlight called by the       *)
(* account that is the oracle fails on the modifier, whatever flight it     *)
(* names, and commits the ledger it found: no policy is appended and the    *)
(* caller is not added to allUsersWithFlights.                              *)
C19_OracleCannotRegister ==
    variant = 2 =>
        \A f \in FlightIDs : \A t \in FlightTimestamps :
            oracle \in Accounts =>
                /\ registerFlightStatus(oracle, f) = "Oracle cannot perform this action"
                /\ registerFlightResult(oracle, f, t) = Ledger

\* variant 2: the oracle is a subscriber who holds no policy, is not in the
\* scanned list, and there is room for a policy
C19_Witness ==
    /\ variant = 2
    /\ oracle \in Accounts
    /\ isSubscribed(oracle)
    /\ Policies(oracle) = <<>>
    /\ RoomForPolicy

-----------------------------------------------------------------------------
(* C20: a successful registerFlight(flightID, flightTimestamp) appends      *)
(* exactly one Policy (flightID, flightTimestamp, paid_out false) at the    *)
(* end of the caller's policies, whose number grows by one; the caller's    *)
(* earlier policies, active flag and startTime, every other account's       *)
(* Subscription, the pool, the recorded flight statuses, the oracle and the *)
(* subscriber list are unchanged, and nothing is sent to anyone, even when  *)
(* the flight is already recorded as delayed.                               *)
C20_RegisterAppendsOnePolicy ==
    \A sender \in Accounts : \A f \in FlightIDs : \A t \in FlightTimestamps :
        registerFlightStatus(sender, f) = OK =>
            LET l == registerFlightResult(sender, f, t) IN
            /\ l.subscriptions[sender].policies =
                   Append(Policies(sender),
                          [flightID |-> f, flightTimestamp |-> t, hasPaidOut |-> FALSE])
            /\ Len(l.subscriptions[sender].policies) = Len(Policies(sender)) + 1
            /\ l.subscriptions[sender].isActive = subscriptions[sender].isActive
            /\ l.subscriptions[sender].startTime = subscriptions[sender].startTime
            /\ \A u \in Accounts \ {sender} : l.subscriptions[u] = subscriptions[u]
            /\ l.balance = balance
            /\ l.received = received
            /\ l.flightDelays = flightDelays
            /\ l.oracle = oracle
            /\ l.insurer = insurer
            /\ l.allSubscribers = allSubscribers

\* a subscriber who holds a policy can register a flight that is recorded as
\* delayed, past its threshold, while the pool holds a payout
C20_Witness ==
    \E sender \in Accounts : \E f \in FlightIDs :
        /\ registerFlightStatus(sender, f) = OK
        /\ RoomForPolicy
        /\ Len(Policies(sender)) > 0
        /\ isSubscribed(sender)
        /\ flightDelays[f]
        /\ now >= DELAY_THRESHOLD
        /\ balance >= PAYOUT

-----------------------------------------------------------------------------
(* C21: in contracts/FlightInsurance.sol (variant 1), setOracle with the    *)
(* zero address fails, whoever calls (for the insurer, as an invalid        *)
(* address), and leaves the oracle as it was; hence the oracle is not the   *)
(* zero address in any reachable state.                                     *)
C21_OracleNeverZero ==
    variant = 1 =>
        /\ oracle # ZERO
        /\ \A sender \in Accounts :
              /\ setOracleStatus(sender, ZERO) # OK
              /\ setOracleResult(sender, ZERO) = Ledger
        /\ setOracleStatus(insurer, ZERO) = "Invalid oracle address"

\* variant 1: the insurer has named another oracle, and naming the zero
\* address now fails for the address
C21_Witness ==
    /\ variant = 1
    /\ oracle # Deployer
    /\ setOracleStatus(insurer, ZERO) = "Invalid oracle address"

-----------------------------------------------------------------------------
(* C22: the administrator (insurer in variant 1, owner in variant 2) is the *)
(* deployer in every reachable state, and no call of any function by any    *)
(* account commits a ledger with another administrator.                     *)
C22_InsurerKept(l) == l.insurer = insurer

C22_InsurerImmutable ==
    /\ insurer = Deployer
    /\ OfCallResults(C22_InsurerKept)

\* the insurer has handed the oracle role to another account and funded the
\* pool, and an account holds a policy
C22_Witness ==
    /\ insurer = Deployer
    /\ oracle \in Accounts \ {insurer}
    /\ balance >= PAYOUT
    /\ PolicyTotal > 0

-----------------------------------------------------------------------------
(* C23: in unnamed/part_002 (variant 2), getUserPolicies(who) returns three *)
(* sequences, each of length getPolicyCount(who), which is the number of    *)
(* who's successful registerFlight calls; position by position they hold    *)
(* the flightID and flightTimestamp of those calls in the order they were   *)
(* made, and the stored paid_out flag of the policy at that position.  Both *)
(* queries are functions of the state and make no step.  Checked under      *)
(* SpecTracked, where registrations records the successful calls.           *)
C23_PoliciesReturnedInOrder ==
    variant = 2 =>
        \A who \in Accounts :
            LET r == getUserPolicies(who)
                n == getPolicyCount(who)
            IN  /\ n = Len(registrations[who])
                /\ Len(r[1]) = n /\ Len(r[2]) = n /\ Len(r[3]) = n
                /\ \A i \in 1..n :
                      /\ r[1][i] = registrations[who][i][1]
                      /\ r[2][i] = registrations[who][i][2]
                      /\ r[3][i] = Policies(who)[i].hasPaidOut

\* variant 2: an account registered two flights and only the second is paid
C23_Witness ==
    /\ variant = 2
    /\ \E who \in Accounts :
          /\ Len(registrations[who]) = 2
          /\ getPolicyCount(who) = 2
          /\ getUserPolicies(who)[3] = <<FALSE, TRUE>>

-----------------------------------------------------------------------------
(* C24: updateFlightStatus by the oracle fails only for an insufficient     *)
(* pool.  Its status is never anything but success or the insufficient      *)
(* pool, and whenever the pool holds PAYOUT for every due policy of the     *)
(* reported flight the call succeeds, whatever policies are registered, a   *)
(* policy whose flightTimestamp + DELAY_THRESHOLD exceeds the unsigned word *)
(* included (such a policy is never due).  Checked under SpecWide.          *)
C24_FailsOnlyForPool ==
    oracle \in Accounts =>
        \A f \in FlightIDs : \A d \in BOOLEAN :
            /\ updateFlightStatusStatus(oracle, f, d) \in {OK, "InsufficientPool"}
            /\ balance >= PAYOUT * Cardinality(DuePolicies(f))
                  => updateFlightStatusStatus(oracle, f, d) = OK

-----------------------------------------------------------------------------
(* C25: the list of accounts the delayed-report scan walks holds each       *)
(* account at most once, after any sequence of subscribe calls              *)
(* (re-subscription after an expiry and deactivation included) and          *)
(* registerFlight calls, so one report visits every subscriber once.        *)
C25_ScanListWithoutRepeats ==
    \A i, j \in 1..Len(ScanList) : ScanList[i] = ScanList[j] => i = j

-----------------------------------------------------------------------------
(* C26, as claimed: in every reachable state, for every account, the stored *)
(* active flag is true only while now < startTime + SUBSCRIPTION_DURATION.  *)
C26_ActiveOnlyWhileUnexpired ==
    \A u \in Accounts :
        subscriptions[u].isActive =>
            now < subscriptions[u].startTime + SUBSCRIPTION_DURATION

(* C26, amended: the stored active flag is true only while now < startTime  *)
(* + SUBSCRIPTION_DURATION or while no successful delayed report has yet    *)
(* scanned the account since its subscription ran out: the flag outlives    *)
(* the period until the expiry is first observed, and from then on it is    *)
(* false until the account subscribes again.  Checked under SpecTracked,    *)
(* where expiredSeen records the observed expiries.                         *)
C26_ActiveUntilExpirySeen ==
    \A u \in Accounts :
        subscriptions[u].isActive =>
            \/ now < subscriptions[u].startTime + SUBSCRIPTION_DURATION
            \/ u \notin expiredSeen

\* a flag still true after its period ran out, no report having scanned the
\* account since, although a delay was reported earlier
C26_Witness ==
    \E u \in Accounts :
        /\ subscriptions[u].isActive
        /\ now >= subscriptions[u].startTime + SUBSCRIPTION_DURATION
        /\ u \notin expiredSeen
        /\ \E f \in FlightIDs : flightDelays[f]

-----------------------------------------------------------------------------
(* C27: in both variants, a successful updateFlightStatus(f, true) leaves   *)
(* the stored active flag false for every account on the scanned list with  *)
(* now >= startTime + SUBSCRIPTION_DURATION and leaves the flag of every    *)
(* account with now < startTime + SUBSCRIPTION_DURATION as it was; and a    *)
(* flag that is false stays false through every call except a successful    *)
(* subscribe by that account.                                               *)
C27_ExpiredCleared(l) ==
    \A u \in Accounts :
        /\ (/\ Contains(ScanList, u)
            /\ now >= subscriptions[u].startTime + SUBSCRIPTION_DURATION) =>
               ~l.subscriptions[u].isActive
        /\ now < subscriptions[u].startTime + SUBSCRIPTION_DURATION =>
               l.subscriptions[u].isActive = subscriptions[u].isActive

C27_StaysCleared(l, except) ==
    \A u \in Accounts \ except :
        ~subscriptions[u].isActive => ~l.subscriptions[u].isActive

C27_LazyExpiryDurable ==
    /\ \A s \in Accounts, f \in FlightIDs :
           updateFlightStatusStatus(s, f, TRUE) = OK =>
               C27_ExpiredCleared(updateFlightStatusResult(s, f, TRUE))
    /\ \A s \in Accounts, f \in FlightIDs, d \in BOOLEAN :
           C27_StaysCleared(updateFlightStatusResult(s, f, d), {})
    /\ \A s \in Accounts, o \in OracleCandidates :
           C27_StaysCleared(setOracleResult(s, o), {})
    /\ \A s \in Accounts, v \in Deposits :
           C27_StaysCleared(depositFundsResult(s, v), {})
    /\ \A s \in Accounts, f \in FlightIDs, t \in FlightTimestamps :
           C27_StaysCleared(registerFlightResult(s, f, t), {})
    /\ \A s \in Accounts, v \in Payments :
           C27_StaysCleared(subscribeResult(s, v),
                            IF subscribeStatus(s, v) = OK THEN {s} ELSE {})

\* a delayed report that succeeds with two flagged accounts on the scanned
\* list, one run out and one not
C27_Witness ==
    \E f \in FlightIDs, u, w \in Accounts :
        /\ updateFlightStatusStatus(oracle, f, TRUE) = OK
        /\ Contains(ScanList, u) /\ Contains(ScanList, w)
        /\ subscriptions[u].isActive
        /\ now >= subscriptions[u].startTime + SUBSCRIPTION_DURATION
        /\ subscriptions[w].isActive
        /\ now < subscriptions[w].startTime + SUBSCRIPTION_DURATION
        /\ ~updateFlightStatusResult(oracle, f, TRUE).subscriptions[u].isActive

-----------------------------------------------------------------------------
(* C28: in both variants every payout is justified.  A call turns a         *)
(* policy's paid_out flag true only if it is updateFlightStatus(f, true)    *)
(* made by the oracle, the policy's flightID is f, now >= flightTimestamp + *)
(* DELAY_THRESHOLD and isSubscribed(owner) holds when the call is made; and *)
(* such a call leaves every policy of another flight id, and every policy   *)
(* and the receipts of an owner who is not subscribed (never subscribed or  *)
(* expired), exactly as they were.                                          *)
C28_NonePaid(l) == \A u \in Accounts : NewlyPaid(l, u) = {}

C28_ReportJustified(l, s, f) ==
    \A u \in Accounts :
        /\ \A j \in NewlyPaid(l, u) :
               /\ s = oracle
               /\ Policies(u)[j].flightID = f
               /\ now >= Policies(u)[j].flightTimestamp + DELAY_THRESHOLD
               /\ isSubscribed(u)
        /\ Len(l.subscriptions[u].policies) = Len(Policies(u))
        /\ \A j \in 1..Len(Policies(u)) :
               (Policies(u)[j].flightID # f \/ ~isSubscribed(u)) =>
                   l.subscriptions[u].policies[j] = Policies(u)[j]
        /\ ~isSubscribed(u) => l.received[u] = received[u]

C28_EveryPayoutJustified ==
    /\ \A s \in Accounts, f \in FlightIDs :
           C28_ReportJustified(updateFlightStatusResult(s, f, TRUE), s, f)
    /\ \A s \in Accounts, f \in FlightIDs :
           C28_NonePaid(updateFlightStatusResult(s, f, FALSE))
    /\ \A s \in Accounts, o \in OracleCandidates : C28_NonePaid(setOracleResult(s, o))
    /\ \A s \in Accounts, v \in Deposits : C28_NonePaid(depositFundsResult(s, v))
    /\ \A s \in Accounts, v \in Payments : C28_NonePaid(subscribeResult(s, v))
    /\ \A s \in Accounts, f \in FlightIDs, t \in FlightTimestamps :
           C28_NonePaid(registerFlightResult(s, f, t))

\* a report that pays one holder while another account holds an unpaid policy
\* of the same flight past the threshold without being subscribed
C28_Witness ==
    \E f \in FlightIDs, u, w \in Accounts :
        /\ NewlyPaid(updateFlightStatusResult(oracle, f, TRUE), u) # {}
        /\ ~isSubscribed(w)
        /\ \E k \in Qualifying(f) : k[1] = w

-----------------------------------------------------------------------------
(* C29: in both variants funds leave the pool only through a successful     *)
(* updateFlightStatus(f, true) made by the current oracle.  In every        *)
(* reachable state (so after any sequence of calls) the ledger committed by *)
(* setOracle, depositFunds, subscribe, registerFlight, by                   *)
(* updateFlightStatus(f, false), and by updateFlightStatus(f, true) from a  *)
(* sender other than the oracle, has a pool balance no lower than before,   *)
(* no paid_out flag newly set and nothing sent to any account; the read     *)
(* queries are expressions over the ledger and commit nothing.              *)
C29_PoolKept(l) ==
    /\ l.balance >= balance
    /\ \A u \in Accounts : NewlyPaid(l, u) = {} /\ l.received[u] = received[u]

C29_FundsLeaveByOracleReportOnly ==
    /\ \A s \in Accounts \ {oracle}, f \in FlightIDs :
           C29_PoolKept(updateFlightStatusResult(s, f, TRUE))
    /\ \A s \in Accounts, f \in FlightIDs :
           C29_PoolKept(updateFlightStatusResult(s, f, FALSE))
    /\ \A s \in Accounts, o \in OracleCandidates : C29_PoolKept(setOracleResult(s, o))
    /\ \A s \in Accounts, v \in Deposits : C29_PoolKept(depositFundsResult(s, v))
    /\ \A s \in Accounts, v \in Payments : C29_PoolKept(subscribeResult(s, v))
    /\ \A s \in Accounts, f \in FlightIDs, t \in FlightTimestamps :
           C29_PoolKept(registerFlightResult(s, f, t))

\* a funded pool and a policy a delayed report owes, where the oracle's own
\* report does lower the pool
C29_Witness ==
    \E f \in FlightIDs :
        /\ DuePolicies(f) # {}
        /\ updateFlightStatusStatus(oracle, f, TRUE) = OK
        /\ updateFlightStatusResult(oracle, f, TRUE).balance < balance

-----------------------------------------------------------------------------
(* C30: a delayed report repeated later re-triggers the scan.  When a       *)
(* successful updateFlightStatus(f, true) met an account's unpaid policy of *)
(* f before its threshold, f is still recorded delayed, and now >=          *)
(* flightTimestamp + DELAY_THRESHOLD while the holder is subscribed and the *)
(* pool covers every policy due for f, then the oracle's next               *)
(* updateFlightStatus(f, true) succeeds, marks that policy paid and sends   *)
(* its holder exactly PAYOUT, and the recorded status of f is what it was.  *)
(* Stated under SpecRepeat, which keeps the history reportedEarly and where *)
(* registerFlight is also given the wide flightTimestamp.                   *)
C30_DueAgain(u, j, f) ==
    /\ <<u, f>> \in reportedEarly
    /\ flightDelays[f]
    /\ <<u, j>> \in DuePolicies(f)
    /\ balance >= PAYOUT * Cardinality(DuePolicies(f))

C30_RepeatedReportPays ==
    \A f \in FlightIDs, u \in Accounts, j \in 1..MaxPolicies :
        C30_DueAgain(u, j, f) =>
            LET l == updateFlightStatusResult(oracle, f, TRUE) IN
            /\ updateFlightStatusStatus(oracle, f, TRUE) = OK
            /\ l.subscriptions[u].policies[j].hasPaidOut
            /\ l.received[u] = received[u] + PAYOUT
            /\ l.balance = balance - PAYOUT * Cardinality(DuePolicies(f))
            /\ l.flightDelays[f] = flightDelays[f]

-----------------------------------------------------------------------------
(* C31: retry after top-up.  When the oracle's last delayed report of f     *)
(* failed for an insufficient pool (it committed nothing: no policy marked  *)
(* paid, no funds spent), and the pool now covers every policy due for f    *)
(* with the holders still subscribed, the oracle's next                     *)
(* updateFlightStatus(f, true) succeeds, marks every due policy paid, sends *)
(* each holder exactly PAYOUT and takes PAYOUT per policy from the pool.    *)
(* Stated under SpecRetry, which keeps the history poolShort and where      *)
(* registerFlight is also given the wide flightTimestamp.                   *)
C31_ToppedUp(f) ==
    /\ f \in poolShort
    /\ DuePolicies(f) # {}
    /\ balance >= PAYOUT * Cardinality(DuePolicies(f))

C31_RetryAfterTopUpPays ==
    \A f \in FlightIDs :
        C31_ToppedUp(f) =>
            LET l == updateFlightStatusResult(oracle, f, TRUE) IN
            /\ updateFlightStatusStatus(oracle, f, TRUE) = OK
            /\ \A k \in DuePolicies(f) :
                   /\ l.subscriptions[k[1]].policies[k[2]].hasPaidOut
                   /\ l.received[k[1]] = received[k[1]] + PAYOUT
            /\ l.balance = balance - PAYOUT * Cardinality(DuePolicies(f))

-----------------------------------------------------------------------------
(* C32: in both variants a successful updateFlightStatus(f, d) commits a    *)
(* ledger in which the recorded status of f is d and the recorded status of *)
(* every other flight id is what it was; a failed updateFlightStatus and    *)
(* every other call leave all recorded statuses as they were; and a flight  *)
(* id that no successful updateFlightStatus has named is recorded false.    *)
(* Checked under SpecAudit, where reported holds the flight ids named by    *)
(* the successful reports.                                                  *)
C32_StatusesKept(l) == l.flightDelays = flightDelays

C32_StatusRecordedForFlightOnly ==
    /\ \A s \in Accounts, f \in FlightIDs, d \in BOOLEAN :
           LET l == updateFlightStatusResult(s, f, d) IN
           IF updateFlightStatusStatus(s, f, d) = OK
           THEN /\ l.flightDelays[f] = d
                /\ \A g \in FlightIDs \ {f} : l.flightDelays[g] = flightDelays[g]
           ELSE C32_StatusesKept(l)
    /\ \A s \in Accounts, o \in OracleCandidates : C32_StatusesKept(setOracleResult(s, o))
    /\ \A s \in Accounts, v \in Deposits : C32_StatusesKept(depositFundsResult(s, v))
    /\ \A s \in Accounts, v \in Payments : C32_StatusesKept(subscribeResult(s, v))
    /\ \A s \in Accounts, f \in FlightIDs, t \in FlightTimestamps :
           C32_StatusesKept(registerFlightResult(s, f, t))
    /\ \A f \in FlightIDs \ reported : ~flightDelays[f]

\* one flight recorded delayed that can now be reported not delayed, beside a
\* flight never reported
C32_Witness ==
    \E f \in FlightIDs, g \in FlightIDs \ reported :
        /\ flightDelays[f]
        /\ updateFlightStatusStatus(oracle, f, FALSE) = OK
        /\ ~updateFlightStatusResult(oracle, f, FALSE).flightDelays[f]

-----------------------------------------------------------------------------
(* C33: nothing is ever deleted.  In both variants, whatever call is made   *)
(* in whatever reachable state (so across any sequence of calls), no        *)
(* account's policy count decreases, every policy keeps its position, its   *)
(* flightID and its flightTimestamp, and the list the scan walks keeps      *)
(* every entry it has, in place.                                            *)
C33_ScanListOf(l) == IF variant = 1 THEN l.allSubscribers ELSE l.allUsersWithFlights

C33_Kept(l) ==
    /\ \A u \in Accounts :
           /\ Len(l.subscriptions[u].policies) >= Len(Policies(u))
           /\ \A j \in 1..Len(Policies(u)) :
                  /\ l.subscriptions[u].policies[j].flightID = Policies(u)[j].flightID
                  /\ l.subscriptions[u].policies[j].flightTimestamp =
                         Policies(u)[j].flightTimestamp
    /\ Len(C33_ScanListOf(l)) >= Len(ScanList)
    /\ \A i \in 1..Len(ScanList) : C33_ScanListOf(l)[i] = ScanList[i]

C33_NothingDeleted == OfCallResults(C33_Kept)

\* a listed holder of a policy whose subscription was seen run out subscribes
\* again, while a delayed report can pay another policy
C33_Witness ==
    \E u \in Accounts, f \in FlightIDs :
        /\ Policies(u) # <<>>
        /\ Contains(ScanList, u)
        /\ Contains(allSubscribers, u)
        /\ subscribeStatus(u, PREMIUM) = OK
        /\ updateFlightStatusStatus(oracle, f, TRUE) = OK
        /\ \E w \in Accounts : NewlyPaid(updateFlightStatusResult(oracle, f, TRUE), w) # {}

-----------------------------------------------------------------------------
(* C34: in both variants subscribe and registerFlight called by an account  *)
(* leave the Subscription (active flag, startTime, policies) of every other *)
(* account as it was, and setOracle and depositFunds leave every            *)
(* Subscription as it was, whoever calls and whether or not the call        *)
(* succeeds.                                                                *)
C34_OthersKept(l, sender) ==
    \A u \in Accounts \ {sender} : l.subscriptions[u] = subscriptions[u]

C34_AllKept(l) == l.subscriptions = subscriptions

C34_SubscriptionOwnedByAccount ==
    /\ \A s \in Accounts, v \in Payments : C34_OthersKept(subscribeResult(s, v), s)
    /\ \A s \in Accounts, f \in FlightIDs, t \in FlightTimestamps :
           C34_OthersKept(registerFlightResult(s, f, t), s)
    /\ \A s \in Accounts, o \in OracleCandidates : C34_AllKept(setOracleResult(s, o))
    /\ \A s \in Accounts, v \in Deposits : C34_AllKept(depositFundsResult(s, v))

\* an account with an active subscription and a policy, while another account
\* can subscribe, an account can register a flight, the insurer can deposit
\* and can name an oracle
C34_Witness ==
    \E w \in Accounts, x \in Subscribers, y \in Subscribers, f \in FlightIDs :
        /\ x # w /\ y # w
        /\ subscriptions[w].isActive
        /\ now > subscriptions[w].startTime
        /\ Policies(w) # <<>>
        /\ subscribeStatus(x, PREMIUM) = OK
        /\ registerFlightStatus(y, f) = OK
        /\ depositFundsStatus(insurer, PAYOUT) = OK
        /\ setOracleStatus(insurer, "acc1") = OK

-----------------------------------------------------------------------------
(* C35: conservation of funds.  In every reachable state of both variants   *)
(* the pool balance equals the sum of the successful deposits plus PREMIUM  *)
(* times the number of successful subscribe calls minus PAYOUT times the    *)
(* number of policies marked paid, it is not negative, and what each        *)
(* account has been sent equals PAYOUT times the number of its policies     *)
(* marked paid.  Checked under SpecAudit, where deposited and               *)
(* subscribeCount keep the history of the payments in.                      *)
C35_PaidPolicies(u) == {j \in 1..Len(Policies(u)) : Policies(u)[j].hasPaidOut}

RECURSIVE C35_PaidCount(_)
C35_PaidCount(S) ==
    IF S = {} THEN 0
    ELSE LET a == CHOOSE x \in S : TRUE
         IN  Cardinality(C35_PaidPolicies(a)) + C35_PaidCount(S \ {a})

C35_FundsConserved ==
    /\ balance = deposited + PREMIUM * subscribeCount - PAYOUT * C35_PaidCount(Accounts)
    /\ balance >= 0
    /\ \A u \in Accounts : received[u] = PAYOUT * Cardinality(C35_PaidPolicies(u))

\* a deposit, two subscribe calls and a payout have been made
C35_Witness ==
    /\ deposited >= PAYOUT
    /\ subscribeCount >= 2
    /\ \E u \in Accounts : received[u] = PAYOUT
    /\ balance = 2 * PREMIUM

-----------------------------------------------------------------------------
(* C36: an expired subscriber can always renew.  In every reachable state,  *)
(* for every account for which isSubscribed is false, subscribe with        *)
(* exactly PREMIUM succeeds.                                                *)
C36_ExpiredCanRenew ==
    \A who \in Accounts :
        ~isSubscribed(who) => subscribeStatus(who, PREMIUM) = OK

-----------------------------------------------------------------------------
(* C37: no self-dealing.  In every reachable state, a delayed report made   *)
(* by the account that is the oracle sends that account nothing and marks   *)
(* none of its policies paid.                                               *)
C37_OracleNeverPaidByOwnReport ==
    \A f \in FlightIDs :
        oracle \in Accounts =>
            LET l == updateFlightStatusResult(oracle, f, TRUE) IN
            /\ l.received[oracle] = received[oracle]
            /\ NewlyPaid(l, oracle) = {}

-----------------------------------------------------------------------------
(* C38: scan coverage.  In every reachable state of both variants every     *)
(* account that holds at least one policy is on the list the delayed-report *)
(* scan walks (allSubscribers in variant 1, allUsersWithFlights in variant  *)
(* 2).                                                                      *)
C38_PolicyHoldersScanned ==
    \A u \in Accounts : Policies(u) # <<>> => Contains(ScanList, u)

\* a policy held by an account that never subscribed, listed by registerFlight
C38_Witness ==
    \E u \in Accounts :
        /\ Policies(u) # <<>>
        /\ ~Contains(allSubscribers, u)
        /\ Contains(ScanList, u)

====
